---- MODULE Spec2Model ----
(***************************************************************************)
(* Model of the coil chaincode (src/coil-orig.go): the world state is a    *)
(* key-value ledger holding one JSON record per coil under its v5cID and   *)
(* the V5C_Holder index under the key "v5cIDs".  Every handler is an       *)
(* operator from a ledger and its arguments to a result (the ledger it     *)
(* leaves, the error it returns), every read function an operator to the   *)
(* bytes and the error it returns; the actions apply them through the      *)
(* Invoke and Query routers.  calls holds the invocations in progress      *)
(* where an invocation is taken one store call at a time, the functions    *)
(* invoked so far where a run follows the life of one coil, and is left    *)
(* alone elsewhere.                                                        *)
(***************************************************************************)
EXTENDS Integers, Sequences, FiniteSets, TLC

VARIABLES ledger, last, calls

vars == <<ledger, last, calls>>

(***************************************************************************)
(* Participant and status constants.                                       *)
(***************************************************************************)
AUTHORITY == "buyer"
MANUFACTURER == "manufacturer"
PRIVATE_ENTITY == "carrier"
LEASE_COMPANY == "bank"
SCRAP_MERCHANT == "scrap_merchant"

STATE_TEMPLATE == 0
STATE_MANUFACTURE == 1
STATE_PRIVATE_OWNERSHIP == 2
STATE_LEASED_OUT == 3
STATE_BEING_SCRAPPED == 4

(***************************************************************************)
(* Inputs: the callers (username and role attribute of the certificate),   *)
(* the v5cID strings, the values passed to the updates.                    *)
(***************************************************************************)
\* Largest last digit of the 15-character serial strings passed to update_coilid.
MaxSerial == 1

Users == {"alice", "mike", "paula", "larry", "sam"}

Affiliation(u) ==
  CASE u = "alice" -> AUTHORITY
    [] u = "mike"  -> MANUFACTURER
    [] u = "paula" -> PRIVATE_ENTITY
    [] u = "larry" -> LEASE_COMPANY
    [] u = "sam"   -> SCRAP_MERCHANT

Affiliations == {AUTHORITY, MANUFACTURER, PRIVATE_ENTITY, LEASE_COMPANY, SCRAP_MERCHANT}

\* The strings passed as v5cID: one of the documented format (two letters and
\* seven digits), one with an underscore for a letter and an eighth digit, one
\* with the digits first, one with five digits only.
Ids == {"AB1234567", "A_12345678", "1234567AB", "AB12345"}

\* The key of the V5C_Holder record.
IndexKey == "v5cIDs"

\* The keys the operations read and write.
Keys == Ids \cup {IndexKey}

\* The v5cIDs create_coil is invoked with.
CreateIds == {"AB1234567", "1234567AB", "AB12345"}

\* The v5cIDs the transfers, updates and scrap are invoked with: a coil taken
\* through its life and an id that is never created.
Targets == {"AB1234567", "AB12345"}

\* The characters of a string, as ASCII codes.
Chars(s) ==
  CASE s = "AB1234567"  -> <<65, 66, 49, 50, 51, 52, 53, 54, 55>>
    [] s = "1234567AB"  -> <<49, 50, 51, 52, 53, 54, 55, 65, 66>>
    [] s = "A_12345678" -> <<65, 95, 49, 50, 51, 52, 53, 54, 55, 56>>
    [] s = "AB12345"    -> <<65, 66, 49, 50, 51, 52, 53>>
    [] s = "v5cIDs"     -> <<118, 53, 99, 73, 68, 115>>

\* The class [0-9].
IsDigit(c) == c \in 48..57

\* The class [A-z]: the ASCII range from "A" (65) to "z" (122), which holds
\* the six characters between "Z" and "a" as well as the letters.
IsAz(c) == c \in 65..122

\* regexp.Match("^[A-z][A-z][0-9]{7}", v5cID): anchored at the start only.
MatchV5cID(s) ==
  LET cs == Chars(s) IN
    /\ Len(cs) >= 9
    /\ IsAz(cs[1])
    /\ IsAz(cs[2])
    /\ \A i \in 3..9 : IsDigit(cs[i])

\* Values passed to update_prod, update_grade, update_qual, update_wgt.
NewValues == {"UNDEFINED", "X"}

Zeros(n) == [i \in 1..n |-> 48]

\* Strings passed to update_coilid, as sequences of ASCII codes: 14 zeros and
\* a last digit, "+00000000000001", "1", "00000000000000x" and 16 digits.
SerialStrings ==
  {Zeros(14) \o <<48 + k>> : k \in 0..MaxSerial}
    \cup {<<43>> \o Zeros(13) \o <<49>>,
          <<49>>,
          Zeros(14) \o <<120>>,
          Zeros(15) \o <<49>>}

RECURSIVE DecimalValue(_)
DecimalValue(cs) ==
  IF cs = <<>> THEN 0
  ELSE 10 * DecimalValue(SubSeq(cs, 1, Len(cs) - 1)) + (cs[Len(cs)] - 48)

\* strconv.Atoi: an optional sign ("+" 43, "-" 45), then one or more digits.
Atoi(cs) ==
  LET signed == cs # <<>> /\ cs[1] \in {43, 45}
      ds == IF signed THEN Tail(cs) ELSE cs
  IN IF ds = <<>> \/ \E i \in 1..Len(ds) : ~IsDigit(ds[i])
       THEN [err |-> TRUE, n |-> 0]
       ELSE [err |-> FALSE,
             n |-> IF signed /\ cs[1] = 45 THEN 0 - DecimalValue(ds)
                   ELSE DecimalValue(ds)]

(***************************************************************************)
(* Records and their JSON form.                                            *)
(***************************************************************************)
NoError == "nil"

\* The value GetState returns for a key that was never put.
NoBytes == [kind |-> "nil"]

\* var v Coil
ZeroCoil ==
  [Prod |-> "", Grade |-> "", Qual |-> "", CoilID |-> 0, Owner |-> "",
   Scrapped |-> FALSE, Status |-> 0, Wgt |-> "", V5cID |-> "",
   LeaseContractID |-> ""]

\* json.Marshal(v) of a Coil: an object keyed by the json tags of the struct.
MarshalCoil(v) ==
  [kind |-> "object", prod |-> v.Prod, grade |-> v.Grade, qual |-> v.Qual,
   CoilID |-> v.CoilID, owner |-> v.Owner, scrapped |-> v.Scrapped,
   status |-> v.Status, wgt |-> v.Wgt, v5cID |-> v.V5cID,
   leaseContractID |-> v.LeaseContractID]

\* json.Marshal(v5cIDs) of a V5C_Holder.
MarshalHolder(h) == [kind |-> "holder", v5cs |-> h]

\* json.Unmarshal(bytes, &v) into a Coil: no input is an error, the keys of
\* another object are ignored.
UnmarshalCoil(bytes) ==
  IF bytes.kind = "nil" THEN [err |-> TRUE, v |-> ZeroCoil]
  ELSE IF bytes.kind = "object"
    THEN [err |-> FALSE,
          v |-> [Prod |-> bytes.prod, Grade |-> bytes.grade, Qual |-> bytes.qual,
                 CoilID |-> bytes.CoilID, Owner |-> bytes.owner,
                 Scrapped |-> bytes.scrapped, Status |-> bytes.status,
                 Wgt |-> bytes.wgt, V5cID |-> bytes.v5cID,
                 LeaseContractID |-> bytes.leaseContractID]]
    ELSE [err |-> FALSE, v |-> ZeroCoil]

\* json.Unmarshal(bytes, &v5cIDs) into a V5C_Holder.
UnmarshalHolder(bytes) ==
  IF bytes.kind = "nil" THEN [err |-> TRUE, h |-> <<>>]
  ELSE IF bytes.kind = "holder" THEN [err |-> FALSE, h |-> bytes.v5cs]
    ELSE [err |-> FALSE, h |-> <<>>]

Result(l, e) == [ledger |-> l, err |-> e]

\* stub.GetState: the bytes under the key, none for a key that was never put.
GetState(l, key) == IF key \in DOMAIN l THEN l[key] ELSE NoBytes

\* retrieve_v5c
retrieve_v5c(l, v5cID) ==
  LET u == UnmarshalCoil(GetState(l, v5cID)) IN
    IF u.err THEN [v |-> u.v, err |-> "RETRIEVE_V5C: Corrupt coil record"]
    ELSE [v |-> u.v, err |-> NoError]

\* save_changes: the record is put under its own V5cID.
save_changes(l, v) == [l EXCEPT ![v.V5cID] = MarshalCoil(v)]

(***************************************************************************)
(* Create.                                                                 *)
(***************************************************************************)
\* A new coil whose owner is left unset.
NewCoil_NoOwner(caller, v5cID) ==
  [Prod |-> "UNDEFINED", Grade |-> "UNDEFINED", Qual |-> "UNDEFINED",
   CoilID |-> 0, Owner |-> "", Scrapped |-> FALSE, Status |-> 0,
   Wgt |-> "UNDEFINED", V5cID |-> v5cID, LeaseContractID |-> "UNDEFINED"]

\* The Coil that create_coil unmarshals from the JSON it concatenates (the
\* keys match the json tags of the struct without regard to case).
NewCoil(caller, v5cID) ==
  [Prod |-> "UNDEFINED", Grade |-> "UNDEFINED", Qual |-> "UNDEFINED",
   CoilID |-> 0, Owner |-> caller, Scrapped |-> FALSE, Status |-> 0,
   Wgt |-> "UNDEFINED", V5cID |-> v5cID, LeaseContractID |-> "UNDEFINED"]

\* A create_coil that does not look for a record under the id.
create_coil_NoDuplicateCheck(l, caller, caller_affiliation, v5cID) ==
  IF ~MatchV5cID(v5cID) THEN Result(l, "Invalid v5cID provided")
  ELSE IF caller_affiliation # AUTHORITY
    THEN Result(l, "Permission Denied. create_coil")
    ELSE LET saved == [l EXCEPT ![v5cID] = [kind |-> "object", prod |-> "UNDEFINED",
                          grade |-> "UNDEFINED", qual |-> "UNDEFINED", CoilID |-> 0,
                          owner |-> caller, scrapped |-> FALSE, status |-> 0,
                          wgt |-> "UNDEFINED", v5cID |-> v5cID,
                          leaseContractID |-> "UNDEFINED"]]
             holder == saved[IndexKey]
         IN Result([saved EXCEPT ![IndexKey] =
                      [kind |-> "holder", v5cs |-> Append(holder.v5cs, v5cID)]],
                   NoError)

\* create_coil.  The test v5c_ID == "" is of the JSON fragment, which is never
\* empty, so the format is decided by the regular expression alone.  GetState
\* and PutState are taken to succeed.
create_coil(l, caller, caller_affiliation, v5cID) ==
  IF ~MatchV5cID(v5cID) THEN Result(l, "Invalid v5cID provided")
  ELSE LET v == NewCoil(caller, v5cID)
           record == GetState(l, v.V5cID)
       IN IF record # NoBytes THEN Result(l, "Coil already exists")
          ELSE IF caller_affiliation # AUTHORITY
            THEN Result(l, "Permission Denied. create_coil")
            ELSE LET saved == save_changes(l, v)
                     holder == UnmarshalHolder(GetState(saved, IndexKey))
                 IN IF holder.err THEN Result(saved, "Corrupt V5C_Holder record")
                    ELSE Result([saved EXCEPT ![IndexKey] =
                                   MarshalHolder(Append(holder.h, v5cID))],
                                NoError)

\* The store calls of create_coil that return an error to it: PutState of the
\* coil record (in save_changes), GetState of the index, PutState of the index.
StoreCalls == {"PutCoil", "GetIndex", "PutIndex"}

\* create_coil while the store calls in fails return an error: a failed
\* PutState writes nothing, a failed GetState returns no bytes.  (The error of
\* GetState(v.V5cID) is not looked at by the code: only the bytes are.)
create_coil_store(l, caller, caller_affiliation, v5cID, fails) ==
  IF ~MatchV5cID(v5cID) THEN Result(l, "Invalid v5cID provided")
  ELSE LET v == NewCoil(caller, v5cID)
           record == GetState(l, v.V5cID)
       IN IF record # NoBytes THEN Result(l, "Coil already exists")
          ELSE IF caller_affiliation # AUTHORITY
            THEN Result(l, "Permission Denied. create_coil")
            ELSE IF "PutCoil" \in fails THEN Result(l, "Error saving changes")
            ELSE LET saved == save_changes(l, v)
                     holder == UnmarshalHolder(GetState(saved, IndexKey))
                 IN IF "GetIndex" \in fails
                      THEN Result(saved, "Unable to get v5cIDs")
                    ELSE IF holder.err
                      THEN Result(saved, "Corrupt V5C_Holder record")
                    ELSE IF "PutIndex" \in fails
                      THEN Result(saved, "Unable to put the state")
                    ELSE Result([saved EXCEPT ![IndexKey] =
                                   MarshalHolder(Append(holder.h, v5cID))],
                                NoError)

(***************************************************************************)
(* Transfers.                                                              *)
(***************************************************************************)
\* An authority_to_manufacturer that does not test the status.
authority_to_manufacturer_AnyStatus(l, v, caller, caller_affiliation, recipient_name, recipient_affiliation) ==
  IF /\ v.Owner = caller
     /\ caller_affiliation = AUTHORITY
     /\ recipient_affiliation = MANUFACTURER
     /\ v.Scrapped = FALSE
    THEN Result([l EXCEPT ![v.V5cID] =
                   [kind |-> "object", prod |-> v.Prod, grade |-> v.Grade,
                    qual |-> v.Qual, CoilID |-> v.CoilID, owner |-> recipient_name,
                    scrapped |-> v.Scrapped, status |-> STATE_MANUFACTURE,
                    wgt |-> v.Wgt, v5cID |-> v.V5cID,
                    leaseContractID |-> v.LeaseContractID]],
                NoError)
    ELSE Result(l, "Permission Denied. authority_to_manufacturer")

\* authority_to_manufacturer
authority_to_manufacturer(l, v, caller, caller_affiliation, recipient_name, recipient_affiliation) ==
  IF /\ v.Status = STATE_TEMPLATE
     /\ v.Owner = caller
     /\ caller_affiliation = AUTHORITY
     /\ recipient_affiliation = MANUFACTURER
     /\ v.Scrapped = FALSE
    THEN Result(save_changes(l, [v EXCEPT !.Owner = recipient_name,
                                          !.Status = STATE_MANUFACTURE]),
                NoError)
    ELSE Result(l, "Permission Denied. authority_to_manufacturer")

\* A manufacturer_to_private that tests the permissions before the fields.
manufacturer_to_private_PermissionFirst(l, v, caller, caller_affiliation, recipient_name, recipient_affiliation) ==
  IF ~(/\ v.Status = STATE_MANUFACTURE
       /\ v.Owner = caller
       /\ caller_affiliation = MANUFACTURER
       /\ recipient_affiliation = PRIVATE_ENTITY
       /\ v.Scrapped = FALSE)
    THEN Result(l, "Permission Denied. manufacturer_to_private")
    ELSE IF \/ v.Prod = "UNDEFINED"
            \/ v.Grade = "UNDEFINED"
            \/ v.Qual = "UNDEFINED"
            \/ v.Wgt = "UNDEFINED"
            \/ v.CoilID = 0
      THEN Result(l, "Coil not fully manufactured")
      ELSE Result([l EXCEPT ![v.V5cID] =
                     [kind |-> "object", prod |-> v.Prod, grade |-> v.Grade,
                      qual |-> v.Qual, CoilID |-> v.CoilID, owner |-> recipient_name,
                      scrapped |-> v.Scrapped, status |-> STATE_PRIVATE_OWNERSHIP,
                      wgt |-> v.Wgt, v5cID |-> v.V5cID,
                      leaseContractID |-> v.LeaseContractID]],
                  NoError)

\* manufacturer_to_private
manufacturer_to_private(l, v, caller, caller_affiliation, recipient_name, recipient_affiliation) ==
  IF \/ v.Prod = "UNDEFINED"
     \/ v.Grade = "UNDEFINED"
     \/ v.Qual = "UNDEFINED"
     \/ v.Wgt = "UNDEFINED"
     \/ v.CoilID = 0
    THEN Result(l, "Coil not fully manufactured")
    ELSE IF /\ v.Status = STATE_MANUFACTURE
            /\ v.Owner = caller
            /\ caller_affiliation = MANUFACTURER
            /\ recipient_affiliation = PRIVATE_ENTITY
            /\ v.Scrapped = FALSE
      THEN Result(save_changes(l, [v EXCEPT !.Owner = recipient_name,
                                            !.Status = STATE_PRIVATE_OWNERSHIP]),
                  NoError)
      ELSE Result(l, "Permission Denied. manufacturer_to_private")

\* A private_to_private that does not test that the caller owns the coil.
private_to_private_AnyOwner(l, v, caller, caller_affiliation, recipient_name, recipient_affiliation) ==
  IF /\ v.Status = STATE_PRIVATE_OWNERSHIP
     /\ caller_affiliation = PRIVATE_ENTITY
     /\ recipient_affiliation = PRIVATE_ENTITY
     /\ v.Scrapped = FALSE
    THEN Result(save_changes(l, [v EXCEPT !.Owner = recipient_name]), NoError)
    ELSE Result(l, "Permission Denied. private_to_private")

\* private_to_private
private_to_private(l, v, caller, caller_affiliation, recipient_name, recipient_affiliation) ==
  IF /\ v.Status = STATE_PRIVATE_OWNERSHIP
     /\ v.Owner = caller
     /\ caller_affiliation = PRIVATE_ENTITY
     /\ recipient_affiliation = PRIVATE_ENTITY
     /\ v.Scrapped = FALSE
    THEN Result(save_changes(l, [v EXCEPT !.Owner = recipient_name]), NoError)
    ELSE Result(l, "Permission Denied. private_to_private")

\* A private_to_lease_company that sets the status LeasedOut.
private_to_lease_company_LeasedOut(l, v, caller, caller_affiliation, recipient_name, recipient_affiliation) ==
  IF /\ v.Status = STATE_PRIVATE_OWNERSHIP
     /\ v.Owner = caller
     /\ caller_affiliation = PRIVATE_ENTITY
     /\ recipient_affiliation = LEASE_COMPANY
     /\ v.Scrapped = FALSE
    THEN Result(save_changes(l, [v EXCEPT !.Owner = recipient_name,
                                          !.Status = STATE_LEASED_OUT]),
                NoError)
    ELSE Result(l, "Permission denied. private_to_lease_company")

\* private_to_lease_company
private_to_lease_company(l, v, caller, caller_affiliation, recipient_name, recipient_affiliation) ==
  IF /\ v.Status = STATE_PRIVATE_OWNERSHIP
     /\ v.Owner = caller
     /\ caller_affiliation = PRIVATE_ENTITY
     /\ recipient_affiliation = LEASE_COMPANY
     /\ v.Scrapped = FALSE
    THEN Result(save_changes(l, [v EXCEPT !.Owner = recipient_name]), NoError)
    ELSE Result(l, "Permission denied. private_to_lease_company")

\* lease_company_to_private
lease_company_to_private(l, v, caller, caller_affiliation, recipient_name, recipient_affiliation) ==
  IF /\ v.Status = STATE_PRIVATE_OWNERSHIP
     /\ v.Owner = caller
     /\ caller_affiliation = LEASE_COMPANY
     /\ recipient_affiliation = PRIVATE_ENTITY
     /\ v.Scrapped = FALSE
    THEN Result(save_changes(l, [v EXCEPT !.Owner = recipient_name]), NoError)
    ELSE Result(l, "Permission Denied. lease_company_to_private")

\* A private_to_scrap_merchant that leaves the status as it is.
private_to_scrap_merchant_StatusKept(l, v, caller, caller_affiliation, recipient_name, recipient_affiliation) ==
  IF /\ v.Status = STATE_PRIVATE_OWNERSHIP
     /\ v.Owner = caller
     /\ caller_affiliation = PRIVATE_ENTITY
     /\ recipient_affiliation = SCRAP_MERCHANT
     /\ v.Scrapped = FALSE
    THEN Result([l EXCEPT ![v.V5cID] =
                   [kind |-> "object", prod |-> v.Prod, grade |-> v.Grade,
                    qual |-> v.Qual, CoilID |-> v.CoilID, owner |-> recipient_name,
                    scrapped |-> v.Scrapped, status |-> v.Status,
                    wgt |-> v.Wgt, v5cID |-> v.V5cID,
                    leaseContractID |-> v.LeaseContractID]],
                NoError)
    ELSE Result(l, "Permission Denied. private_to_scrap_merchant")

\* private_to_scrap_merchant
private_to_scrap_merchant(l, v, caller, caller_affiliation, recipient_name, recipient_affiliation) ==
  IF /\ v.Status = STATE_PRIVATE_OWNERSHIP
     /\ v.Owner = caller
     /\ caller_affiliation = PRIVATE_ENTITY
     /\ recipient_affiliation = SCRAP_MERCHANT
     /\ v.Scrapped = FALSE
    THEN Result(save_changes(l, [v EXCEPT !.Owner = recipient_name,
                                          !.Status = STATE_BEING_SCRAPPED]),
                NoError)
    ELSE Result(l, "Permission Denied. private_to_scrap_merchant")

(***************************************************************************)
(* Updates and scrap.                                                      *)
(***************************************************************************)
\* An update_vin that does not test that the serial number is still 0.
update_vin_Repeatable(l, v, caller, caller_affiliation, new_value) ==
  LET new_vin == Atoi(new_value) IN
    IF new_vin.err \/ Len(new_value) # 15
      THEN Result(l, "Invalid value passed for new CoilID")
      ELSE IF /\ v.Status = STATE_MANUFACTURE
              /\ v.Owner = caller
              /\ caller_affiliation = MANUFACTURER
              /\ v.Scrapped = FALSE
        THEN Result(save_changes(l, [v EXCEPT !.CoilID = new_vin.n]), NoError)
        ELSE Result(l, "Permission denied. update_vin")

\* An update_vin that does not test the length of the value.
update_vin_AnyLength(l, v, caller, caller_affiliation, new_value) ==
  LET new_vin == Atoi(new_value) IN
    IF new_vin.err
      THEN Result(l, "Invalid value passed for new CoilID")
      ELSE IF /\ v.Status = STATE_MANUFACTURE
              /\ v.Owner = caller
              /\ caller_affiliation = MANUFACTURER
              /\ v.CoilID = 0
              /\ v.Scrapped = FALSE
        THEN Result(save_changes(l, [v EXCEPT !.CoilID = new_vin.n]), NoError)
        ELSE Result(l, "Permission denied. update_vin")

\* update_vin
update_vin(l, v, caller, caller_affiliation, new_value) ==
  LET new_vin == Atoi(new_value) IN
    IF new_vin.err \/ Len(new_value) # 15
      THEN Result(l, "Invalid value passed for new CoilID")
      ELSE IF /\ v.Status = STATE_MANUFACTURE
              /\ v.Owner = caller
              /\ caller_affiliation = MANUFACTURER
              /\ v.CoilID = 0
              /\ v.Scrapped = FALSE
        THEN Result(save_changes(l, [v EXCEPT !.CoilID = new_vin.n]), NoError)
        ELSE Result(l, "Permission denied. update_vin")

\* An update_qualistration that tests the status as update_prod does.
update_qualistration_ManufactureOnly(l, v, caller, caller_affiliation, new_value) ==
  IF /\ v.Status = STATE_MANUFACTURE
     /\ v.Owner = caller
     /\ caller_affiliation # SCRAP_MERCHANT
     /\ v.Scrapped = FALSE
    THEN Result(save_changes(l, [v EXCEPT !.Qual = new_value]), NoError)
    ELSE Result(l, "Permission denied. update_qualistration")

\* update_qualistration
update_qualistration(l, v, caller, caller_affiliation, new_value) ==
  IF /\ v.Owner = caller
     /\ caller_affiliation # SCRAP_MERCHANT
     /\ v.Scrapped = FALSE
    THEN Result(save_changes(l, [v EXCEPT !.Qual = new_value]), NoError)
    ELSE Result(l, "Permission denied. update_qualistration")

\* update_wgt
update_wgt(l, v, caller, caller_affiliation, new_value) ==
  IF /\ v.Owner = caller
     /\ caller_affiliation = MANUFACTURER
     /\ v.Scrapped = FALSE
    THEN Result(save_changes(l, [v EXCEPT !.Wgt = new_value]), NoError)
    ELSE Result(l, "Permission denied. update_wgt")

\* An update_prod that writes the new value before it tests the permissions.
update_prod_WriteFirst(l, v, caller, caller_affiliation, new_value) ==
  LET written == [l EXCEPT ![v.V5cID] =
                    [kind |-> "object", prod |-> new_value, grade |-> v.Grade,
                     qual |-> v.Qual, CoilID |-> v.CoilID, owner |-> v.Owner,
                     scrapped |-> v.Scrapped, status |-> v.Status,
                     wgt |-> v.Wgt, v5cID |-> v.V5cID,
                     leaseContractID |-> v.LeaseContractID]]
  IN IF /\ v.Status = STATE_MANUFACTURE
        /\ v.Owner = caller
        /\ caller_affiliation = MANUFACTURER
        /\ v.Scrapped = FALSE
       THEN Result(written, NoError)
       ELSE Result(written, "Permission denied. update_prod")

\* update_prod
update_prod(l, v, caller, caller_affiliation, new_value) ==
  IF /\ v.Status = STATE_MANUFACTURE
     /\ v.Owner = caller
     /\ caller_affiliation = MANUFACTURER
     /\ v.Scrapped = FALSE
    THEN Result(save_changes(l, [v EXCEPT !.Prod = new_value]), NoError)
    ELSE Result(l, "Permission denied. update_prod")

\* An update_grade that does not test the status.
update_grade_AnyStatus(l, v, caller, caller_affiliation, new_value) ==
  IF /\ v.Owner = caller
     /\ caller_affiliation = MANUFACTURER
     /\ v.Scrapped = FALSE
    THEN Result(save_changes(l, [v EXCEPT !.Grade = new_value]), NoError)
    ELSE Result(l, "Permission denied. update_grade")

\* update_grade
update_grade(l, v, caller, caller_affiliation, new_value) ==
  IF /\ v.Status = STATE_MANUFACTURE
     /\ v.Owner = caller
     /\ caller_affiliation = MANUFACTURER
     /\ v.Scrapped = FALSE
    THEN Result(save_changes(l, [v EXCEPT !.Grade = new_value]), NoError)
    ELSE Result(l, "Permission denied. update_grade")

\* A scrap_coil that does not test the scrapped flag.
scrap_coil_ScrappedIgnored(l, v, caller, caller_affiliation) ==
  IF /\ v.Status = STATE_BEING_SCRAPPED
     /\ v.Owner = caller
     /\ caller_affiliation = SCRAP_MERCHANT
    THEN Result([l EXCEPT ![v.V5cID] =
                   [kind |-> "object", prod |-> v.Prod, grade |-> v.Grade,
                    qual |-> v.Qual, CoilID |-> v.CoilID, owner |-> v.Owner,
                    scrapped |-> TRUE, status |-> v.Status,
                    wgt |-> v.Wgt, v5cID |-> v.V5cID,
                    leaseContractID |-> v.LeaseContractID]],
                NoError)
    ELSE Result(l, "Permission denied. scrap_coil")

\* A scrap_coil that does not test who calls.
scrap_coil_AnyCaller(l, v, caller, caller_affiliation) ==
  IF /\ v.Status = STATE_BEING_SCRAPPED
     /\ v.Scrapped = FALSE
    THEN Result([l EXCEPT ![v.V5cID] =
                   [kind |-> "object", prod |-> v.Prod, grade |-> v.Grade,
                    qual |-> v.Qual, CoilID |-> v.CoilID, owner |-> v.Owner,
                    scrapped |-> TRUE, status |-> v.Status,
                    wgt |-> v.Wgt, v5cID |-> v.V5cID,
                    leaseContractID |-> v.LeaseContractID]],
                NoError)
    ELSE Result(l, "Permission denied. scrap_coil")

\* scrap_coil
scrap_coil(l, v, caller, caller_affiliation) ==
  IF /\ v.Status = STATE_BEING_SCRAPPED
     /\ v.Owner = caller
     /\ caller_affiliation = SCRAP_MERCHANT
     /\ v.Scrapped = FALSE
    THEN Result(save_changes(l, [v EXCEPT !.Scrapped = TRUE]), NoError)
    ELSE Result(l, "Permission denied. scrap_coil")

(***************************************************************************)
(* Read functions.  A query returns bytes and an error.                    *)
(***************************************************************************)
QueryResult(b, e) == [bytes |-> b, err |-> e]

\* What a read function that is handed the ledger returns, with the ledger
\* its store calls leave.
ReadResult(l, b, e) == [ledger |-> l, bytes |-> b, err |-> e]

\* A get_coil_details that returns the record to every caller.
get_coil_details_AnyCaller(v, caller, caller_affiliation) ==
  QueryResult([kind |-> "object", prod |-> v.Prod, grade |-> v.Grade,
               qual |-> v.Qual, CoilID |-> v.CoilID, owner |-> v.Owner,
               scrapped |-> v.Scrapped, status |-> v.Status, wgt |-> v.Wgt,
               v5cID |-> v.V5cID, leaseContractID |-> v.LeaseContractID],
              NoError)

\* get_coil_details
get_coil_details(v, caller, caller_affiliation) ==
  LET bytes == MarshalCoil(v) IN
    IF v.Owner = caller \/ caller_affiliation = AUTHORITY
      THEN QueryResult(bytes, NoError)
      ELSE QueryResult(NoBytes, "Permission Denied. get_coil_details")

\* The JSON array get_coils builds: "[" and the records joined by commas and
\* "]", which is "[]" when there is no record.
JsonArray(items) == [kind |-> "array", items |-> items]

\* The loop of get_coils over the ids of the index: result holds the records
\* appended so far.
RECURSIVE get_coils_range(_, _, _, _, _)
get_coils_range(l, v5cs, caller, caller_affiliation, result) ==
  IF v5cs = <<>> THEN [items |-> result, err |-> NoError]
  ELSE LET r == retrieve_v5c(l, Head(v5cs)) IN
    IF r.err # NoError THEN [items |-> result, err |-> "Failed to retrieve V5C"]
    ELSE LET temp == get_coil_details(r.v, caller, caller_affiliation) IN
      get_coils_range(l, Tail(v5cs), caller, caller_affiliation,
                      IF temp.err = NoError THEN Append(result, temp.bytes)
                      ELSE result)

\* A get_coils that returns every record of the index, whoever calls.
get_coils_Unfiltered(l, caller, caller_affiliation) ==
  LET holder == UnmarshalHolder(GetState(l, IndexKey)) IN
    IF holder.err THEN ReadResult(l, NoBytes, "Corrupt V5C_Holder")
    ELSE ReadResult(l, [kind |-> "array",
                        items |-> [i \in 1..Len(holder.h) |-> GetState(l, holder.h[i])]],
                    NoError)

\* get_coils
get_coils(l, caller, caller_affiliation) ==
  LET holder == UnmarshalHolder(GetState(l, IndexKey)) IN
    IF holder.err THEN ReadResult(l, NoBytes, "Corrupt V5C_Holder")
    ELSE LET r == get_coils_range(l, holder.h, caller, caller_affiliation, <<>>) IN
      IF r.err # NoError THEN ReadResult(l, NoBytes, r.err)
      ELSE ReadResult(l, JsonArray(r.items), NoError)

\* A check_unique_v5c that keeps the id it found free, by a record put under it.
check_unique_v5c_Reserves(l, v5c, caller, caller_affiliation) ==
  IF retrieve_v5c(l, v5c).err = NoError
    THEN ReadResult(l, "false", "V5C is not unique")
    ELSE ReadResult([k \in DOMAIN l |-> IF k = v5c THEN MarshalHolder(<<>>) ELSE l[k]],
                    "true", NoError)

\* check_unique_v5c
check_unique_v5c(l, v5c, caller, caller_affiliation) ==
  IF retrieve_v5c(l, v5c).err = NoError
    THEN ReadResult(l, "false", "V5C is not unique")
    ELSE ReadResult(l, "true", NoError)

\* get_ecert: the bytes stored under the name.
get_ecert(l, name) == ReadResult(l, GetState(l, name), NoError)

\* ping
ping == QueryResult("Hello, world!", NoError)

(***************************************************************************)
(* The router.                                                             *)
(***************************************************************************)
TransferFunctions ==
  {"authority_to_manufacturer", "manufacturer_to_private", "private_to_private",
   "private_to_lease_company", "lease_company_to_private",
   "private_to_scrap_merchant"}

UpdateFunctions == {"update_prod", "update_grade", "update_qual", "update_wgt"}

\* The recipient affiliation Invoke passes to each transfer function.
InvokeRecipientAffiliation(function) ==
  CASE function = "authority_to_manufacturer" -> "manufacturer"
    [] function = "manufacturer_to_private"   -> "private"
    [] function = "private_to_private"        -> "private"
    [] function = "private_to_lease_company"  -> "lease_company"
    [] function = "lease_company_to_private"  -> "private"
    [] function = "private_to_scrap_merchant" -> "scrap_merchant"

\* The transfer function of a name, applied.
Transfer(function, l, v, caller, caller_affiliation, recipient_name, recipient_affiliation) ==
  CASE function = "authority_to_manufacturer" ->
         authority_to_manufacturer(l, v, caller, caller_affiliation, recipient_name, recipient_affiliation)
    [] function = "manufacturer_to_private" ->
         manufacturer_to_private(l, v, caller, caller_affiliation, recipient_name, recipient_affiliation)
    [] function = "private_to_private" ->
         private_to_private(l, v, caller, caller_affiliation, recipient_name, recipient_affiliation)
    [] function = "private_to_lease_company" ->
         private_to_lease_company(l, v, caller, caller_affiliation, recipient_name, recipient_affiliation)
    [] function = "lease_company_to_private" ->
         lease_company_to_private(l, v, caller, caller_affiliation, recipient_name, recipient_affiliation)
    [] function = "private_to_scrap_merchant" ->
         private_to_scrap_merchant(l, v, caller, caller_affiliation, recipient_name, recipient_affiliation)

\* An index past the end of args: the invocation panics and writes nothing.
Panic == "panic: index out of range"

\* Invoke, with args a sequence (args[0] of the code is args[1] here).
Invoke(l, function, args, caller, caller_affiliation) ==
  IF function = "create_coil"
    THEN IF Len(args) < 1 THEN Result(l, Panic)
         ELSE create_coil(l, caller, caller_affiliation, args[1])
  ELSE IF function = "ping" THEN Result(l, NoError)
  ELSE LET argPos == IF function = "scrap_coil" THEN 0 ELSE 1 IN
    IF Len(args) < argPos + 1 THEN Result(l, Panic)
    ELSE LET r == retrieve_v5c(l, args[argPos + 1])
             v == r.v
         IN IF r.err # NoError THEN Result(l, "Error retrieving v5c")
            ELSE IF function \in TransferFunctions
              THEN Transfer(function, l, v, caller, caller_affiliation, args[1],
                            InvokeRecipientAffiliation(function))
            ELSE IF function = "update_prod"
              THEN update_prod(l, v, caller, caller_affiliation, args[1])
            ELSE IF function = "update_grade"
              THEN update_grade(l, v, caller, caller_affiliation, args[1])
            ELSE IF function = "update_qual"
              THEN update_qualistration(l, v, caller, caller_affiliation, args[1])
            ELSE IF function = "update_coilid"
              THEN update_vin(l, v, caller, caller_affiliation, args[1])
            ELSE IF function = "update_wgt"
              THEN update_wgt(l, v, caller, caller_affiliation, args[1])
            ELSE IF function = "scrap_coil"
              THEN scrap_coil(l, v, caller, caller_affiliation)
            ELSE Result(l, "Function of the name doesn't exist.")

\* Query, with args a sequence (args[0] of the code is args[1] here).
Query(l, function, args, caller, caller_affiliation) ==
  IF function = "get_coil_details"
    THEN IF Len(args) # 1
           THEN ReadResult(l, NoBytes, "QUERY: Incorrect number of arguments passed")
         ELSE LET r == retrieve_v5c(l, args[1]) IN
           IF r.err # NoError THEN ReadResult(l, NoBytes, "QUERY: Error retrieving v5c")
           ELSE LET d == get_coil_details(r.v, caller, caller_affiliation) IN
             ReadResult(l, d.bytes, d.err)
  ELSE IF function = "check_unique_v5c"
    THEN IF Len(args) < 1 THEN ReadResult(l, NoBytes, Panic)
         ELSE check_unique_v5c(l, args[1], caller, caller_affiliation)
  ELSE IF function = "get_coils" THEN get_coils(l, caller, caller_affiliation)
  ELSE IF function = "get_ecert"
    THEN IF Len(args) < 1 THEN ReadResult(l, NoBytes, Panic)
         ELSE get_ecert(l, args[1])
  ELSE IF function = "ping" THEN ReadResult(l, ping.bytes, ping.err)
  ELSE ReadResult(l, NoBytes, "Received unknown function invocation")

(***************************************************************************)
(* The state machine: the ledger after Init, and one action per function   *)
(* of the router.  last is the function last invoked and what it returned. *)
(***************************************************************************)
\* No invocation is in progress.
NoCalls == <<>>

\* Init: the empty V5C_Holder is put under "v5cIDs".  The certificates Init
\* stores under user names are read by get_ecert alone and are left out.
Init ==
  /\ ledger = [k \in Keys |-> IF k = IndexKey THEN MarshalHolder(<<>>) ELSE NoBytes]
  /\ last = [function |-> "Init", err |-> NoError]
  /\ calls = NoCalls

\* One invocation of the chaincode by a caller.
Invocation(function, args, caller) ==
  LET r == Invoke(ledger, function, args, caller, Affiliation(caller)) IN
    /\ ledger' = r.ledger
    /\ last' = [function |-> function, err |-> r.err]
    /\ UNCHANGED calls

CreateCoil(v5cID, caller) ==
  LET r == Invoke(ledger, "create_coil", <<v5cID>>, caller, Affiliation(caller)) IN
    /\ ledger' = r.ledger
    /\ last' = [function |-> "create_coil", err |-> r.err]
    /\ UNCHANGED calls

AuthorityToManufacturer(v5cID, caller, recipient) ==
  LET r == Invoke(ledger, "authority_to_manufacturer", <<recipient, v5cID>>, caller, Affiliation(caller)) IN
    /\ ledger' = r.ledger
    /\ last' = [function |-> "authority_to_manufacturer", err |-> r.err]
    /\ UNCHANGED calls

ManufacturerToPrivate(v5cID, caller, recipient) ==
  LET r == Invoke(ledger, "manufacturer_to_private", <<recipient, v5cID>>, caller, Affiliation(caller)) IN
    /\ ledger' = r.ledger
    /\ last' = [function |-> "manufacturer_to_private", err |-> r.err]
    /\ UNCHANGED calls

PrivateToPrivate(v5cID, caller, recipient) ==
  LET r == Invoke(ledger, "private_to_private", <<recipient, v5cID>>, caller, Affiliation(caller)) IN
    /\ ledger' = r.ledger
    /\ last' = [function |-> "private_to_private", err |-> r.err]
    /\ UNCHANGED calls

PrivateToLeaseCompany(v5cID, caller, recipient) ==
  LET r == Invoke(ledger, "private_to_lease_company", <<recipient, v5cID>>, caller, Affiliation(caller)) IN
    /\ ledger' = r.ledger
    /\ last' = [function |-> "private_to_lease_company", err |-> r.err]
    /\ UNCHANGED calls

LeaseCompanyToPrivate(v5cID, caller, recipient) ==
  LET r == Invoke(ledger, "lease_company_to_private", <<recipient, v5cID>>, caller, Affiliation(caller)) IN
    /\ ledger' = r.ledger
    /\ last' = [function |-> "lease_company_to_private", err |-> r.err]
    /\ UNCHANGED calls

PrivateToScrapMerchant(v5cID, caller, recipient) ==
  LET r == Invoke(ledger, "private_to_scrap_merchant", <<recipient, v5cID>>, caller, Affiliation(caller)) IN
    /\ ledger' = r.ledger
    /\ last' = [function |-> "private_to_scrap_merchant", err |-> r.err]
    /\ UNCHANGED calls

UpdateProd(v5cID, caller, value) ==
  LET r == Invoke(ledger, "update_prod", <<value, v5cID>>, caller, Affiliation(caller)) IN
    /\ ledger' = r.ledger
    /\ last' = [function |-> "update_prod", err |-> r.err]
    /\ UNCHANGED calls

UpdateGrade(v5cID, caller, value) ==
  LET r == Invoke(ledger, "update_grade", <<value, v5cID>>, caller, Affiliation(caller)) IN
    /\ ledger' = r.ledger
    /\ last' = [function |-> "update_grade", err |-> r.err]
    /\ UNCHANGED calls

UpdateQual(v5cID, caller, value) ==
  LET r == Invoke(ledger, "update_qual", <<value, v5cID>>, caller, Affiliation(caller)) IN
    /\ ledger' = r.ledger
    /\ last' = [function |-> "update_qual", err |-> r.err]
    /\ UNCHANGED calls

UpdateWgt(v5cID, caller, value) ==
  LET r == Invoke(ledger, "update_wgt", <<value, v5cID>>, caller, Affiliation(caller)) IN
    /\ ledger' = r.ledger
    /\ last' = [function |-> "update_wgt", err |-> r.err]
    /\ UNCHANGED calls

UpdateCoilID(v5cID, caller, value) ==
  LET r == Invoke(ledger, "update_coilid", <<value, v5cID>>, caller, Affiliation(caller)) IN
    /\ ledger' = r.ledger
    /\ last' = [function |-> "update_coilid", err |-> r.err]
    /\ UNCHANGED calls

ScrapCoil(v5cID, caller) ==
  LET r == Invoke(ledger, "scrap_coil", <<v5cID>>, caller, Affiliation(caller)) IN
    /\ ledger' = r.ledger
    /\ last' = [function |-> "scrap_coil", err |-> r.err]
    /\ UNCHANGED calls

Ping(caller) ==
  LET r == Invoke(ledger, "ping", <<>>, caller, Affiliation(caller)) IN
    /\ ledger' = r.ledger
    /\ last' = [function |-> "ping", err |-> r.err]
    /\ UNCHANGED calls

\* A function name the router does not know.
UnknownFunction(v5cID, caller) ==
  LET r == Invoke(ledger, "delete_coil", <<"X", v5cID>>, caller, Affiliation(caller)) IN
    /\ ledger' = r.ledger
    /\ last' = [function |-> "delete_coil", err |-> r.err]
    /\ UNCHANGED calls

WriteFunctions ==
  {"create_coil", "scrap_coil", "update_coilid"} \cup TransferFunctions \cup UpdateFunctions

\* A first argument each function accepts.
SampleArg(function) ==
  IF function \in TransferFunctions THEN "mike"
  ELSE IF function = "update_coilid" THEN Zeros(14) \o <<49>>
  ELSE "X"

\* An invocation with no argument.
ShortArgs(function) ==
  /\ function # "scrap_coil"
  /\ Invocation(function, <<>>, "alice")

\* An invocation of a transfer or an update with its first argument only.
ShortArgsOne(function) ==
  /\ function \notin {"create_coil", "scrap_coil"}
  /\ Invocation(function, <<SampleArg(function)>>, "mike")

\* An invocation that names the key of the index as the coil.
OnIndexKey(function, caller) ==
  /\ function # "create_coil"
  /\ Invocation(function,
                IF function = "scrap_coil" THEN <<IndexKey>>
                ELSE <<SampleArg(function), IndexKey>>,
                caller)

Next ==
  \/ \E id \in CreateIds, c \in Users : CreateCoil(id, c)
  \/ \E id \in Targets, c \in Users, r \in Users : AuthorityToManufacturer(id, c, r)
  \/ \E id \in Targets, c \in Users, r \in Users : ManufacturerToPrivate(id, c, r)
  \/ \E id \in Targets, c \in Users, r \in Users : PrivateToPrivate(id, c, r)
  \/ \E id \in Targets, c \in Users, r \in Users : PrivateToLeaseCompany(id, c, r)
  \/ \E id \in Targets, c \in Users, r \in Users : LeaseCompanyToPrivate(id, c, r)
  \/ \E id \in Targets, c \in Users, r \in Users : PrivateToScrapMerchant(id, c, r)
  \/ \E id \in Targets, c \in Users, x \in NewValues : UpdateProd(id, c, x)
  \/ \E id \in Targets, c \in Users, x \in NewValues : UpdateGrade(id, c, x)
  \/ \E id \in Targets, c \in Users, x \in NewValues : UpdateQual(id, c, x)
  \/ \E id \in Targets, c \in Users, x \in NewValues : UpdateWgt(id, c, x)
  \/ \E id \in Targets, c \in Users, x \in SerialStrings : UpdateCoilID(id, c, x)
  \/ \E id \in Targets, c \in Users : ScrapCoil(id, c)
  \/ \E c \in Users : Ping(c)
  \/ \E id \in Targets, c \in Users : UnknownFunction(id, c)
  \/ \E f \in WriteFunctions : ShortArgs(f)
  \/ \E f \in WriteFunctions : ShortArgsOne(f)
  \/ \E f \in WriteFunctions, c \in Users : OnIndexKey(f, c)

Spec == Init /\ [][Next]_vars

(***************************************************************************)
(* The transfer functions applied to the stored record with the recipient  *)
(* affiliation that the certificate of the recipient carries, as a caller  *)
(* of the functions other than Invoke passes it.                           *)
(***************************************************************************)
TransferCall(function, v5cID, caller, recipient) ==
  LET r == retrieve_v5c(ledger, v5cID)
      t == Transfer(function, ledger, r.v, caller, Affiliation(caller), recipient,
                    Affiliation(recipient))
  IN /\ r.err = NoError
     /\ ledger' = t.ledger
     /\ last' = [function |-> function, err |-> t.err]
     /\ UNCHANGED calls

NextFunctions ==
  \/ Next
  \/ \E f \in TransferFunctions, c \in Users, r \in Users :
       TransferCall(f, "AB1234567", c, r)

SpecFunctions == Init /\ [][NextFunctions]_vars

(***************************************************************************)
(* Several coils and the queries: create_coil on two ids the format check  *)
(* lets through, with the store calls that may fail, the transfer to a     *)
(* manufacturer, and the functions of the Query router.                    *)
(***************************************************************************)
\* The v5cIDs created here.
IndexIds == {"AB1234567", "A_12345678"}

\* The v5cIDs the queries name: the created ones and one never created.
QueryIds == IndexIds \cup {"AB12345"}

\* An invocation of create_coil while the store calls in fails return an error.
CreateCoilStore(v5cID, caller, fails) ==
  LET r == create_coil_store(ledger, caller, Affiliation(caller), v5cID, fails) IN
    /\ ledger' = r.ledger
    /\ last' = [function |-> "create_coil", err |-> r.err]
    /\ UNCHANGED calls

GetCoilDetails(args, caller) ==
  LET r == Query(ledger, "get_coil_details", args, caller, Affiliation(caller)) IN
    /\ ledger' = r.ledger
    /\ last' = [function |-> "get_coil_details", err |-> r.err]
    /\ UNCHANGED calls

GetCoils(caller) ==
  LET r == Query(ledger, "get_coils", <<>>, caller, Affiliation(caller)) IN
    /\ ledger' = r.ledger
    /\ last' = [function |-> "get_coils", err |-> r.err]
    /\ UNCHANGED calls

CheckUniqueV5c(v5cID, caller) ==
  LET r == Query(ledger, "check_unique_v5c", <<v5cID>>, caller, Affiliation(caller)) IN
    /\ ledger' = r.ledger
    /\ last' = [function |-> "check_unique_v5c", err |-> r.err]
    /\ UNCHANGED calls

GetEcert(name, caller) ==
  LET r == Query(ledger, "get_ecert", <<name>>, caller, Affiliation(caller)) IN
    /\ ledger' = r.ledger
    /\ last' = [function |-> "get_ecert", err |-> r.err]
    /\ UNCHANGED calls

QueryPing(caller) ==
  LET r == Query(ledger, "ping", <<>>, caller, Affiliation(caller)) IN
    /\ ledger' = r.ledger
    /\ last' = [function |-> "ping", err |-> r.err]
    /\ UNCHANGED calls

\* A function name the Query router does not know.
UnknownQuery(caller) ==
  LET r == Query(ledger, "get_coil", <<"AB1234567">>, caller, Affiliation(caller)) IN
    /\ ledger' = r.ledger
    /\ last' = [function |-> "get_coil", err |-> r.err]
    /\ UNCHANGED calls

NextIndex ==
  \/ \E id \in IndexIds, c \in Users, fails \in SUBSET StoreCalls :
       CreateCoilStore(id, c, fails)
  \/ \E id \in IndexIds, c \in Users, r \in Users : AuthorityToManufacturer(id, c, r)
  \/ \E id \in QueryIds, c \in Users : GetCoilDetails(<<id>>, c)
  \/ \E c \in Users : GetCoilDetails(<<>>, c)
  \/ \E c \in Users : GetCoils(c)
  \/ \E id \in QueryIds, c \in Users : CheckUniqueV5c(id, c)
  \/ \E id \in QueryIds, c \in Users : GetEcert(id, c)
  \/ \E c \in Users : QueryPing(c)
  \/ \E c \in Users : UnknownQuery(c)

SpecIndex == Init /\ [][NextIndex]_vars

(***************************************************************************)
(* Init invoked again on a ledger in use (a deploy transaction of the same *)
(* chaincode runs it), between invocations that create two coils, pass     *)
(* them to a manufacturer, update them and list them.  No store call fails.*)
(***************************************************************************)
\* The ledger Init leaves when invoked with no arguments: the empty
\* V5C_Holder is put under "v5cIDs", whatever stands there.
InitLedger(l) == [l EXCEPT ![IndexKey] = MarshalHolder(<<>>)]

InitInvoked ==
  /\ ledger' = InitLedger(ledger)
  /\ last' = [function |-> "Init", err |-> NoError]
  /\ UNCHANGED calls

NextInit ==
  \/ \E id \in IndexIds, c \in Users : CreateCoil(id, c)
  \/ \E id \in IndexIds, c \in Users, r \in Users : AuthorityToManufacturer(id, c, r)
  \/ \E id \in IndexIds, c \in Users, x \in NewValues : UpdateQual(id, c, x)
  \/ \E id \in IndexIds, c \in Users : ScrapCoil(id, c)
  \/ \E c \in Users : GetCoils(c)
  \/ InitInvoked

SpecInit == Init /\ [][NextInit]_vars

(***************************************************************************)
(* The life of one coil through Invoke: create_coil, the transfer to a     *)
(* manufacturer, the five updates in any order, the transfer to a private  *)
(* entity, the transfer to a scrap merchant and scrap_coil, each invoked   *)
(* once by a caller of the role the function asks for (the owner, there    *)
(* being one user of each role).  calls holds the functions invoked so far.*)
(***************************************************************************)
LifecycleId == "AB1234567"

ManufacturingUpdates ==
  {"update_prod", "update_grade", "update_qual", "update_wgt", "update_coilid"}

UsersOf(affiliation) == {u \in Users : Affiliation(u) = affiliation}

Invoked(function) == \E i \in 1..Len(calls) : calls[i] = function

LifecycleCreate ==
  /\ calls = <<>>
  /\ \E c \in UsersOf(AUTHORITY) :
       LET r == Invoke(ledger, "create_coil", <<LifecycleId>>, c, Affiliation(c)) IN
         /\ ledger' = r.ledger
         /\ last' = [function |-> "create_coil", err |-> r.err]
  /\ calls' = Append(calls, "create_coil")

LifecycleToManufacturer ==
  /\ calls = <<"create_coil">>
  /\ \E c \in UsersOf(AUTHORITY), to \in UsersOf(MANUFACTURER) :
       LET r == Invoke(ledger, "authority_to_manufacturer", <<to, LifecycleId>>,
                       c, Affiliation(c)) IN
         /\ ledger' = r.ledger
         /\ last' = [function |-> "authority_to_manufacturer", err |-> r.err]
  /\ calls' = Append(calls, "authority_to_manufacturer")

LifecycleUpdate(function, value) ==
  /\ Invoked("authority_to_manufacturer")
  /\ ~Invoked(function)
  /\ ~Invoked("manufacturer_to_private")
  /\ \E c \in UsersOf(MANUFACTURER) :
       LET r == Invoke(ledger, function, <<value, LifecycleId>>, c, Affiliation(c)) IN
         /\ ledger' = r.ledger
         /\ last' = [function |-> function, err |-> r.err]
  /\ calls' = Append(calls, function)

LifecycleToPrivate ==
  /\ \A f \in ManufacturingUpdates : Invoked(f)
  /\ ~Invoked("manufacturer_to_private")
  /\ \E c \in UsersOf(MANUFACTURER), to \in UsersOf(PRIVATE_ENTITY) :
       LET r == Invoke(ledger, "manufacturer_to_private", <<to, LifecycleId>>,
                       c, Affiliation(c)) IN
         /\ ledger' = r.ledger
         /\ last' = [function |-> "manufacturer_to_private", err |-> r.err]
  /\ calls' = Append(calls, "manufacturer_to_private")

LifecycleToScrapMerchant ==
  /\ Invoked("manufacturer_to_private")
  /\ ~Invoked("private_to_scrap_merchant")
  /\ \E c \in UsersOf(PRIVATE_ENTITY), to \in UsersOf(SCRAP_MERCHANT) :
       LET r == Invoke(ledger, "private_to_scrap_merchant", <<to, LifecycleId>>,
                       c, Affiliation(c)) IN
         /\ ledger' = r.ledger
         /\ last' = [function |-> "private_to_scrap_merchant", err |-> r.err]
  /\ calls' = Append(calls, "private_to_scrap_merchant")

LifecycleScrap ==
  /\ Invoked("private_to_scrap_merchant")
  /\ ~Invoked("scrap_coil")
  /\ \E c \in UsersOf(SCRAP_MERCHANT) :
       LET r == Invoke(ledger, "scrap_coil", <<LifecycleId>>, c, Affiliation(c)) IN
         /\ ledger' = r.ledger
         /\ last' = [function |-> "scrap_coil", err |-> r.err]
  /\ calls' = Append(calls, "scrap_coil")

NextLifecycle ==
  \/ LifecycleCreate
  \/ LifecycleToManufacturer
  \/ \E f \in ManufacturingUpdates \ {"update_coilid"}, x \in NewValues :
       LifecycleUpdate(f, x)
  \/ \E x \in SerialStrings : LifecycleUpdate("update_coilid", x)
  \/ LifecycleToPrivate
  \/ LifecycleToScrapMerchant
  \/ LifecycleScrap

SpecLifecycle == Init /\ [][NextLifecycle]_vars

(***************************************************************************)
(* Two invocations on different coils whose store calls interleave.  Each  *)
(* GetState and each PutState of a handler is one step on the one ledger;  *)
(* what a handler computes between two store calls is local to it.  calls  *)
(* holds the two invocations: function, args and caller, the position pc   *)
(* in the handler, the values it holds locally (put: the record to write,  *)
(* holder: the index read), the error it returned, and the ledger at the   *)
(* time both were submitted.                                               *)
(***************************************************************************)
ConcurrentIds == <<"AB1234567", "A_12345678">>

ConcurrentFunctions == {"create_coil", "authority_to_manufacturer", "update_qual"}

ConcurrentCallers == {"alice", "mike"}

\* The arguments of an invocation of the function on the coil.
ConcurrentArgs(function, v5cID) ==
  IF function = "create_coil" THEN <<v5cID>>
  ELSE IF function = "authority_to_manufacturer" THEN <<"mike", v5cID>>
  ELSE <<"X", v5cID>>

NewCall(function, v5cID, caller, l) ==
  [function |-> function, args |-> ConcurrentArgs(function, v5cID),
   caller |-> caller, pc |-> "start", put |-> NoBytes, holder |-> <<>>,
   err |-> NoError, start |-> l]

\* The key of the coil the invocation is about: args[0] of create_coil,
\* args[argPos] of the others.
CallKey(c) == c.args[Len(c.args)]

\* The invocation run alone, from its first store call to its last.
InvokeCall(l, c) == Invoke(l, c.function, c.args, c.caller, Affiliation(c.caller))

Returned(c, e) == [c EXCEPT !.pc = "done", !.err = e]

BeginCalls(f1, c1, f2, c2) ==
  /\ calls = NoCalls
  /\ calls' = <<NewCall(f1, ConcurrentIds[1], c1, ledger),
                NewCall(f2, ConcurrentIds[2], c2, ledger)>>
  /\ UNCHANGED <<ledger, last>>

\* create_coil up to the tests that follow GetState(v.V5cID).
CreateGetRecord(i) ==
  /\ calls # NoCalls
  /\ calls[i].function = "create_coil" /\ calls[i].pc = "start"
  /\ LET c == calls[i]
         v5cID == c.args[1]
         v == NewCoil(c.caller, v5cID)
         record == GetState(ledger, v.V5cID)
         e == IF ~MatchV5cID(v5cID) THEN "Invalid v5cID provided"
              ELSE IF record # NoBytes THEN "Coil already exists"
              ELSE IF Affiliation(c.caller) # AUTHORITY
                THEN "Permission Denied. create_coil"
              ELSE NoError
     IN IF e # NoError
          THEN /\ calls' = [calls EXCEPT ![i] = Returned(c, e)]
               /\ last' = [function |-> c.function, err |-> e]
          ELSE /\ calls' = [calls EXCEPT ![i] =
                              [c EXCEPT !.pc = "PutCoil", !.put = MarshalCoil(v)]]
               /\ UNCHANGED last
  /\ UNCHANGED ledger

\* save_changes of create_coil: PutState(v.V5cID, bytes).
CreatePutRecord(i) ==
  /\ calls # NoCalls
  /\ calls[i].function = "create_coil" /\ calls[i].pc = "PutCoil"
  /\ ledger' = [ledger EXCEPT ![CallKey(calls[i])] = calls[i].put]
  /\ calls' = [calls EXCEPT ![i].pc = "GetIndex"]
  /\ UNCHANGED last

\* GetState("v5cIDs") of create_coil, unmarshalled and appended to locally.
CreateGetIndex(i) ==
  /\ calls # NoCalls
  /\ calls[i].function = "create_coil" /\ calls[i].pc = "GetIndex"
  /\ LET c == calls[i]
         holder == UnmarshalHolder(GetState(ledger, IndexKey))
     IN IF holder.err
          THEN /\ calls' = [calls EXCEPT ![i] = Returned(c, "Corrupt V5C_Holder record")]
               /\ last' = [function |-> c.function, err |-> "Corrupt V5C_Holder record"]
          ELSE /\ calls' = [calls EXCEPT ![i] =
                              [c EXCEPT !.pc = "PutIndex",
                                        !.holder = Append(holder.h, c.args[1])]]
               /\ UNCHANGED last
  /\ UNCHANGED ledger

\* PutState("v5cIDs", bytes) of create_coil.
CreatePutIndex(i) ==
  /\ calls # NoCalls
  /\ calls[i].function = "create_coil" /\ calls[i].pc = "PutIndex"
  /\ ledger' = [ledger EXCEPT ![IndexKey] = MarshalHolder(calls[i].holder)]
  /\ calls' = [calls EXCEPT ![i] = Returned(calls[i], NoError)]
  /\ last' = [function |-> "create_coil", err |-> NoError]

\* A transfer or an update up to its save_changes: retrieve_v5c in Invoke
\* (GetState of the coil) and the tests of the handler on the record read.
CallGetRecord(i) ==
  /\ calls # NoCalls
  /\ calls[i].function # "create_coil" /\ calls[i].pc = "start"
  /\ LET c == calls[i]
         r == InvokeCall(ledger, c)
     IN IF r.err # NoError
          THEN /\ calls' = [calls EXCEPT ![i] = Returned(c, r.err)]
               /\ last' = [function |-> c.function, err |-> r.err]
          ELSE /\ calls' = [calls EXCEPT ![i] =
                              [c EXCEPT !.pc = "PutCoil",
                                        !.put = GetState(r.ledger, CallKey(c))]]
               /\ UNCHANGED last
  /\ UNCHANGED ledger

\* save_changes of a transfer or an update: PutState(v.V5cID, bytes).
CallPutRecord(i) ==
  /\ calls # NoCalls
  /\ calls[i].function # "create_coil" /\ calls[i].pc = "PutCoil"
  /\ ledger' = [ledger EXCEPT ![CallKey(calls[i])] = calls[i].put]
  /\ calls' = [calls EXCEPT ![i] = Returned(calls[i], NoError)]
  /\ last' = [function |-> calls[i].function, err |-> NoError]

AllReturned == calls # NoCalls /\ \A i \in 1..Len(calls) : calls[i].pc = "done"

\* Both invocations have returned; the next two can be submitted.
EndCalls ==
  /\ AllReturned
  /\ calls' = NoCalls
  /\ UNCHANGED <<ledger, last>>

NextConcurrent ==
  \/ \E f1 \in ConcurrentFunctions, c1 \in ConcurrentCallers,
        f2 \in ConcurrentFunctions, c2 \in ConcurrentCallers :
       BeginCalls(f1, c1, f2, c2)
  \/ \E i \in 1..2 : CreateGetRecord(i)
  \/ \E i \in 1..2 : CreatePutRecord(i)
  \/ \E i \in 1..2 : CreateGetIndex(i)
  \/ \E i \in 1..2 : CreatePutIndex(i)
  \/ \E i \in 1..2 : CallGetRecord(i)
  \/ \E i \in 1..2 : CallPutRecord(i)
  \/ EndCalls

SpecConcurrent == Init /\ [][NextConcurrent]_vars

(***************************************************************************)
(* Properties.  They speak of the stored records and of what an invocation *)
(* made in the current state returns and leaves.                           *)
(***************************************************************************)
\* A record is stored under the key.
Exists(l, id) == GetState(l, id) # NoBytes

\* The coil stored under the key, as retrieve_v5c reads it.
Stored(l, id) == retrieve_v5c(l, id).v

\* What an invocation by the caller returns in the current state.
Call(function, args, caller) ==
  Invoke(ledger, function, args, caller, Affiliation(caller))

\* The first arguments the actions pass to a function.
FirstArgs(function) ==
  IF function \in TransferFunctions THEN Users
  ELSE IF function = "update_coilid" THEN SerialStrings
  ELSE NewValues

\* The argument lists of the transfers, updates and scrap on a key.
ArgLists(function, id) ==
  IF function = "scrap_coil" THEN {<<id>>}
  ELSE {<<x, id>> : x \in FirstArgs(function)}

MutatingFunctions == WriteFunctions \ {"create_coil"}

Succeeds(r) == r.err = NoError

Fails(r) == r.err # NoError

\* The ledgers differ at most under the key.
SameExcept(l1, l2, id) == \A k \in Keys \ {id} : l1[k] = l2[k]

FullyManufactured(v) ==
  /\ v.Prod # "UNDEFINED"
  /\ v.Grade # "UNDEFINED"
  /\ v.Qual # "UNDEFINED"
  /\ v.Wgt # "UNDEFINED"
  /\ v.CoilID # 0

\* Every transfer, update and scrap_coil on a scrapped coil returns an error.
ScrappedRefusesAll ==
  \A id \in Ids :
    (Exists(ledger, id) /\ Stored(ledger, id).Scrapped) =>
      /\ \A f \in MutatingFunctions, c \in Users :
           \A args \in ArgLists(f, id) : Fails(Call(f, args, c))
      /\ \A f \in TransferFunctions, c \in Users, r \in Users :
           Fails(Transfer(f, ledger, Stored(ledger, id), c, Affiliation(c), r,
                          Affiliation(r)))

\* No step changes the stored record of a scrapped coil.
ScrappedUnchanged ==
  \A id \in Ids :
    (Exists(ledger, id) /\ Stored(ledger, id).Scrapped) => ledger'[id] = ledger[id]

\* C1: once a coil is scrapped, every transfer, update and scrap_coil on it
\* returns an error, and no step changes its stored record.
C1_ScrappedIsFrozen == []ScrappedRefusesAll /\ [][ScrappedUnchanged]_vars

\* C1 witness: a scrapped coil on which a later invocation was refused.
C1_Witness ==
  /\ Stored(ledger, "AB1234567").Scrapped
  /\ last.function = "update_qual"
  /\ last.err = "Permission denied. update_qualistration"

\* C2: authority_to_manufacturer succeeds exactly on a Template coil owned by
\* the caller, the caller an Authority, the coil not scrapped; it then stores
\* the recipient as owner and status Manufacture and changes nothing else.
C2_AuthorityToManufacturer ==
  \A id \in Ids, c \in Users, r \in Users :
    LET res == Call("authority_to_manufacturer", <<r, id>>, c)
        v == Stored(ledger, id)
    IN /\ Succeeds(res) <=>
            /\ Exists(ledger, id)
            /\ v.Status = STATE_TEMPLATE
            /\ v.Owner = c
            /\ Affiliation(c) = AUTHORITY
            /\ v.Scrapped = FALSE
       /\ Succeeds(res) =>
            /\ Stored(res.ledger, id) =
                 [v EXCEPT !.Owner = r, !.Status = STATE_MANUFACTURE]
            /\ SameExcept(res.ledger, ledger, id)

\* C2 witness: the coil right after a successful authority_to_manufacturer.
C2_Witness ==
  /\ last = [function |-> "authority_to_manufacturer", err |-> NoError]
  /\ Stored(ledger, "AB1234567").Status = STATE_MANUFACTURE
  /\ Stored(ledger, "AB1234567").Owner = "mike"

\* C3: manufacturer_to_private, invoked by the owner, a Manufacturer, on a
\* fully manufactured coil in Manufacture that is not scrapped, naming a
\* PrivateEntity recipient, succeeds and stores the recipient as owner and
\* status PrivateOwnership.
C3_ManufacturerToPrivate ==
  \A id \in Ids, c \in Users, r \in Users :
    LET res == Call("manufacturer_to_private", <<r, id>>, c)
        v == Stored(ledger, id)
    IN (/\ Exists(ledger, id)
        /\ v.Status = STATE_MANUFACTURE
        /\ FullyManufactured(v)
        /\ v.Owner = c
        /\ Affiliation(c) = MANUFACTURER
        /\ v.Scrapped = FALSE
        /\ Affiliation(r) = PRIVATE_ENTITY) =>
         /\ Succeeds(res)
         /\ Stored(res.ledger, id).Owner = r
         /\ Stored(res.ledger, id).Status = STATE_PRIVATE_OWNERSHIP

\* The caller and recipient roles of the three transfers within
\* PrivateOwnership.
PrivateTransferRoles ==
  {<<"private_to_private", PRIVATE_ENTITY, PRIVATE_ENTITY>>,
   <<"private_to_lease_company", PRIVATE_ENTITY, LEASE_COMPANY>>,
   <<"lease_company_to_private", LEASE_COMPANY, PRIVATE_ENTITY>>}

\* C4: on a coil in PrivateOwnership that is not scrapped, private_to_private,
\* private_to_lease_company and lease_company_to_private, invoked by the owner
\* in the caller role and naming a recipient of the recipient role, succeed,
\* store the recipient as owner and change nothing else.
C4_TransfersWithinPrivateOwnership ==
  \A id \in Ids, c \in Users, r \in Users, t \in PrivateTransferRoles :
    LET res == Call(t[1], <<r, id>>, c)
        v == Stored(ledger, id)
    IN (/\ Exists(ledger, id)
        /\ v.Status = STATE_PRIVATE_OWNERSHIP
        /\ v.Owner = c
        /\ Affiliation(c) = t[2]
        /\ Affiliation(r) = t[3]
        /\ v.Scrapped = FALSE) =>
         /\ Succeeds(res)
         /\ Stored(res.ledger, id) = [v EXCEPT !.Owner = r]

\* C5: private_to_scrap_merchant succeeds exactly on a coil in
\* PrivateOwnership owned by the caller, the caller a PrivateEntity, the coil
\* not scrapped; it then stores the recipient as owner and status
\* BeingScrapped and changes nothing else.
C5_PrivateToScrapMerchant ==
  \A id \in Ids, c \in Users, r \in Users :
    LET res == Call("private_to_scrap_merchant", <<r, id>>, c)
        v == Stored(ledger, id)
    IN /\ Succeeds(res) <=>
            /\ Exists(ledger, id)
            /\ v.Status = STATE_PRIVATE_OWNERSHIP
            /\ v.Owner = c
            /\ Affiliation(c) = PRIVATE_ENTITY
            /\ v.Scrapped = FALSE
       /\ Succeeds(res) =>
            /\ Stored(res.ledger, id) =
                 [v EXCEPT !.Owner = r, !.Status = STATE_BEING_SCRAPPED]
            /\ Stored(res.ledger, id).Scrapped = FALSE
            /\ SameExcept(res.ledger, ledger, id)

\* C5 witness: the coil right after a successful private_to_scrap_merchant.
C5_Witness ==
  /\ last = [function |-> "private_to_scrap_merchant", err |-> NoError]
  /\ Stored(ledger, "AB1234567").Status = STATE_BEING_SCRAPPED
  /\ Stored(ledger, "AB1234567").Owner = "sam"
  /\ Stored(ledger, "AB1234567").Scrapped = FALSE

\* C6: scrap_coil succeeds exactly on a coil in BeingScrapped owned by the
\* caller, the caller a ScrapMerchant, the coil not scrapped; it then sets
\* scrapped and changes nothing else.
C6_ScrapCoil ==
  \A id \in Ids, c \in Users :
    LET res == Call("scrap_coil", <<id>>, c)
        v == Stored(ledger, id)
    IN /\ Succeeds(res) <=>
            /\ Exists(ledger, id)
            /\ v.Status = STATE_BEING_SCRAPPED
            /\ v.Owner = c
            /\ Affiliation(c) = SCRAP_MERCHANT
            /\ v.Scrapped = FALSE
       /\ Succeeds(res) =>
            /\ Stored(res.ledger, id) = [v EXCEPT !.Scrapped = TRUE]
            /\ Stored(res.ledger, id).Status = STATE_BEING_SCRAPPED
            /\ Stored(res.ledger, id).Owner = c
            /\ SameExcept(res.ledger, ledger, id)

\* C6 witness: the coil right after a successful scrap_coil.
C6_Witness ==
  /\ last = [function |-> "scrap_coil", err |-> NoError]
  /\ Stored(ledger, "AB1234567").Scrapped = TRUE
  /\ Stored(ledger, "AB1234567").Status = STATE_BEING_SCRAPPED

\* The argument lists an invocation of a transfer, an update or scrap_coil is
\* made with: on every key, and with too few arguments.
AllArgLists(function) ==
  UNION {ArgLists(function, id) : id \in Keys}
    \cup {<<>>} \cup {<<x>> : x \in FirstArgs(function)}

\* C7: a transfer, update or scrap that returns an error leaves every key of
\* the ledger as it was: the coil it names, every other coil, the index, and
\* no record under an id that had none.
C7_FailureWritesNothing ==
  \A f \in MutatingFunctions, c \in Users :
    \A args \in AllArgLists(f) :
      LET res == Call(f, args, c) IN Fails(res) => res.ledger = ledger

\* C7 witness: an invocation on an id that was never created was refused
\* while a coil is stored, and no record stands under that id.
C7_Witness ==
  /\ last = [function |-> "update_prod", err |-> "Error retrieving v5c"]
  /\ Exists(ledger, "AB1234567")
  /\ ~Exists(ledger, "AB12345")

\* C8: manufacturer_to_private returns the not-fully-manufactured error, and
\* writes nothing, whenever one of producer, grade, quality, weight is
\* "UNDEFINED" or the serial number is 0, whoever calls and whatever the
\* status and the scrapped flag.
C8_NotFullyManufactured ==
  \A id \in Ids, c \in Users, r \in Users :
    LET res == Call("manufacturer_to_private", <<r, id>>, c)
        v == Stored(ledger, id)
    IN (Exists(ledger, id) /\ ~FullyManufactured(v)) =>
         /\ res.err = "Coil not fully manufactured"
         /\ res.ledger = ledger

\* C8 witness: the refusal, returned to the owner of a coil in Manufacture
\* whose serial number alone is still unset.
C8_Witness ==
  /\ last = [function |-> "manufacturer_to_private",
             err |-> "Coil not fully manufactured"]
  /\ LET v == Stored(ledger, "AB1234567") IN
       /\ v.Status = STATE_MANUFACTURE
       /\ v.CoilID = 0
       /\ v.Prod # "UNDEFINED" /\ v.Grade # "UNDEFINED"
       /\ v.Qual # "UNDEFINED" /\ v.Wgt # "UNDEFINED"

CreateOutcome ==
  \A id \in Ids, c \in Users :
    LET res == Call("create_coil", <<id>>, c) IN
      /\ Succeeds(res) =>
           /\ ~Exists(ledger, id)
           /\ Affiliation(c) = AUTHORITY
           /\ Exists(res.ledger, id)
      /\ Exists(ledger, id) => res.err = "Coil already exists"
      /\ (Affiliation(c) # AUTHORITY /\ ~Exists(ledger, id)) =>
           res.err \in {"Permission Denied. create_coil", "Invalid v5cID provided"}
      /\ Fails(res) => res.ledger = ledger

\* No step removes a stored record.
RecordsStay == \A id \in Ids : Exists(ledger, id) => Exists(ledger', id)

IsLetter(c) == c \in 65..90 \/ c \in 97..122

\* Exactly two letters followed by exactly seven digits.
WellFormedV5cID(s) ==
  LET cs == Chars(s) IN
    /\ Len(cs) = 9
    /\ IsLetter(cs[1])
    /\ IsLetter(cs[2])
    /\ \A i \in 3..9 : IsDigit(cs[i])

\* C11: create_coil succeeds only on an id of exactly two letters followed by
\* exactly seven digits; on every other string it returns the invalid-id
\* error and writes nothing.
C11_CreateAcceptsOnlyWellFormedIds ==
  \A id \in Ids, c \in Users :
    LET res == Call("create_coil", <<id>>, c) IN
      /\ Succeeds(res) => WellFormedV5cID(id)
      /\ ~WellFormedV5cID(id) =>
           /\ res.err = "Invalid v5cID provided"
           /\ res.ledger = ledger

\* The ids of the V5C_Holder record.
Index(l) == UnmarshalHolder(GetState(l, IndexKey)).h

InIndex(l, id) == \E i \in 1..Len(Index(l)) : Index(l)[i] = id

\* C12: whatever create_coil returned, and whichever store call failed, a
\* coil record stands under an id exactly when the index holds the id.
C12_CreateIsAtomic ==
  \A id \in Ids : Exists(ledger, id) <=> InIndex(ledger, id)

\* The edges of the status graph.
StatusEdges ==
  {<<STATE_TEMPLATE, STATE_MANUFACTURE>>,
   <<STATE_MANUFACTURE, STATE_PRIVATE_OWNERSHIP>>,
   <<STATE_PRIVATE_OWNERSHIP, STATE_BEING_SCRAPPED>>}

\* A step leaves the status of a stored coil as it is or moves it along one
\* edge.
StatusStep ==
  \A id \in Ids :
    Exists(ledger, id) =>
      LET s == Stored(ledger, id).Status
          t == Stored(ledger', id).Status
      IN /\ Exists(ledger', id)
         /\ t = s \/ <<s, t>> \in StatusEdges

\* No stored coil has status LeasedOut.
NoLeasedOut ==
  \A id \in Ids :
    Exists(ledger, id) => Stored(ledger, id).Status # STATE_LEASED_OUT

\* C13: every step leaves the status of a coil unchanged or moves it along
\* one of Template -> Manufacture, Manufacture -> PrivateOwnership,
\* PrivateOwnership -> BeingScrapped, and no stored coil is ever LeasedOut.
C13_StatusAdvances == []NoLeasedOut /\ [][StatusStep]_vars

\* C13 witness: a coil in PrivateOwnership that private_to_lease_company has
\* just passed to a lease company.
C13_Witness ==
  /\ last = [function |-> "private_to_lease_company", err |-> NoError]
  /\ Stored(ledger, "AB1234567").Status = STATE_PRIVATE_OWNERSHIP
  /\ Stored(ledger, "AB1234567").Owner = "larry"

OwnerOf(l, id) == Stored(l, id).Owner

\* The argument lists create_coil is invoked with.
CreateArgLists == {<<id>> : id \in Ids} \cup {<<>>}

\* In the current state an invocation changes the owner of a stored coil only
\* if it is a successful transfer of that coil invoked by its owner, and then
\* the recipient is the owner; a create stores the creator as owner.
OwnerChangesOnlyByTransfer ==
  /\ \A f \in WriteFunctions, c \in Users :
       \A args \in (IF f = "create_coil" THEN CreateArgLists ELSE AllArgLists(f)) :
         LET res == Call(f, args, c) IN
           res.ledger # ledger =>
             \A id \in Ids :
               /\ (Exists(ledger, id) /\ OwnerOf(res.ledger, id) # OwnerOf(ledger, id)) =>
                    /\ f \in TransferFunctions
                    /\ Succeeds(res)
                    /\ Len(args) = 2
                    /\ args[2] = id
                    /\ c = OwnerOf(ledger, id)
                    /\ OwnerOf(res.ledger, id) = args[1]
               /\ (~Exists(ledger, id) /\ Exists(res.ledger, id)) =>
                    /\ f = "create_coil"
                    /\ OwnerOf(res.ledger, id) = c
  /\ \A f \in TransferFunctions, c \in Users, r \in Users, id \in Ids :
       Exists(ledger, id) =>
         LET res == Transfer(f, ledger, Stored(ledger, id), c, Affiliation(c), r,
                             Affiliation(r))
         IN \A k \in Ids :
              OwnerOf(res.ledger, k) # OwnerOf(ledger, k) =>
                /\ Succeeds(res)
                /\ k = id
                /\ c = OwnerOf(ledger, id)
                /\ OwnerOf(res.ledger, id) = r

\* A step that changes the owner of a stored coil is a transfer that returned
\* no error.
OwnerStep ==
  \A id \in Ids :
    (Exists(ledger, id) /\ OwnerOf(ledger', id) # OwnerOf(ledger, id)) =>
      /\ last'.function \in TransferFunctions
      /\ last'.err = NoError

\* C14: the owner of a coil changes only in a successful transfer invoked by
\* the owner, and becomes the recipient named; create stores the creator as
\* owner; no update, scrap or failed invocation changes the owner.
C14_OwnerChangesOnlyByTransfer ==
  []OwnerChangesOnlyByTransfer /\ [][OwnerStep]_vars

\* C14 witness: a lease company, the owner, has just passed the coil to a
\* private entity.
C14_Witness ==
  /\ last = [function |-> "lease_company_to_private", err |-> NoError]
  /\ OwnerOf(ledger, "AB1234567") = "paula"

\* A step changes the serial number of a stored coil only from 0 and only
\* while the status is Manufacture; a serial number other than 0 stays.
SerialStep ==
  \A id \in Ids :
    Exists(ledger, id) =>
      LET v == Stored(ledger, id)
          w == Stored(ledger', id)
      IN /\ w.CoilID # v.CoilID => (v.Status = STATE_MANUFACTURE /\ v.CoilID = 0)
         /\ v.CoilID # 0 => w.CoilID = v.CoilID

\* C15: the serial number changes only in a step taken while the status is
\* Manufacture and the serial number is 0; once it is not 0 it keeps its
\* value in every later state.
C15_SerialSetOnce == [][SerialStep]_vars

\* C15 witness: a second update_coilid on a coil whose serial number is set
\* was refused.
C15_Witness ==
  /\ last = [function |-> "update_coilid", err |-> "Permission denied. update_vin"]
  /\ Stored(ledger, "AB1234567").CoilID = 1
  /\ Stored(ledger, "AB1234567").Status = STATE_MANUFACTURE

\* The value parses as an integer and is 15 characters long.
ValidSerial(x) == ~Atoi(x).err /\ Len(x) = 15

\* C16: on a stored coil update_coilid returns the invalid-value error and
\* writes nothing unless the value parses as an integer and has 15
\* characters; with such a value it succeeds exactly when the status is
\* Manufacture, the caller is the owner and a Manufacturer, the serial number
\* is 0 and the coil is not scrapped, and then only the serial number
\* changes, to the parsed value.
C16_UpdateCoilID ==
  \A id \in Ids, c \in Users, x \in SerialStrings :
    LET res == Call("update_coilid", <<x, id>>, c)
        v == Stored(ledger, id)
    IN /\ ~Exists(ledger, id) => (Fails(res) /\ res.ledger = ledger)
       /\ Exists(ledger, id) =>
            /\ ~ValidSerial(x) =>
                 /\ res.err = "Invalid value passed for new CoilID"
                 /\ res.ledger = ledger
            /\ ValidSerial(x) =>
                 (Succeeds(res) <=>
                    /\ v.Status = STATE_MANUFACTURE
                    /\ v.Owner = c
                    /\ Affiliation(c) = MANUFACTURER
                    /\ v.CoilID = 0
                    /\ v.Scrapped = FALSE)
            /\ Succeeds(res) =>
                 /\ Stored(res.ledger, id) = [v EXCEPT !.CoilID = Atoi(x).n]
                 /\ SameExcept(res.ledger, ledger, id)
            /\ Fails(res) => res.ledger = ledger

\* C16 witness: update_coilid has just set the serial number of a coil in
\* Manufacture.
C16_Witness ==
  /\ last = [function |-> "update_coilid", err |-> NoError]
  /\ Stored(ledger, "AB1234567").CoilID = 1
  /\ Stored(ledger, "AB1234567").Status = STATE_MANUFACTURE

\* The record with the field an update function targets set to the value.
WithField(v, function, x) ==
  CASE function = "update_prod"  -> [v EXCEPT !.Prod = x]
    [] function = "update_grade" -> [v EXCEPT !.Grade = x]
    [] function = "update_wgt"   -> [v EXCEPT !.Wgt = x]
    [] function = "update_qual"  -> [v EXCEPT !.Qual = x]

\* C17: update_prod, update_grade and update_wgt succeed exactly on a coil in
\* Manufacture owned by the caller, the caller a Manufacturer, the coil not
\* scrapped; on success only the targeted field changes.
C17_ManufactureUpdates ==
  \A f \in {"update_prod", "update_grade", "update_wgt"} :
    \A id \in Ids, c \in Users, x \in NewValues :
      LET res == Call(f, <<x, id>>, c)
          v == Stored(ledger, id)
      IN /\ Succeeds(res) <=>
              /\ Exists(ledger, id)
              /\ v.Status = STATE_MANUFACTURE
              /\ v.Owner = c
              /\ Affiliation(c) = MANUFACTURER
              /\ v.Scrapped = FALSE
         /\ Succeeds(res) =>
              /\ Stored(res.ledger, id) = WithField(v, f, x)
              /\ SameExcept(res.ledger, ledger, id)

\* C18: update_qual succeeds, in any status, exactly on a coil owned by the
\* caller, the caller not a ScrapMerchant, the coil not scrapped; on success
\* only the quality changes.
C18_UpdateQual ==
  \A id \in Ids, c \in Users, x \in NewValues :
    LET res == Call("update_qual", <<x, id>>, c)
        v == Stored(ledger, id)
    IN /\ Succeeds(res) <=>
            /\ Exists(ledger, id)
            /\ v.Owner = c
            /\ Affiliation(c) # SCRAP_MERCHANT
            /\ v.Scrapped = FALSE
       /\ Succeeds(res) =>
            /\ Stored(res.ledger, id) = WithField(v, "update_qual", x)
            /\ SameExcept(res.ledger, ledger, id)
       /\ Fails(res) => res.ledger = ledger

\* C18 witness: update_qual has just succeeded on a coil in PrivateOwnership.
C18_Witness ==
  /\ last = [function |-> "update_qual", err |-> NoError]
  /\ Stored(ledger, "AB1234567").Status = STATE_PRIVATE_OWNERSHIP
  /\ Stored(ledger, "AB1234567").Qual = "X"

Visible(l, id, c) == OwnerOf(l, id) = c \/ Affiliation(c) = AUTHORITY

\* The ids of the sequence that the caller may see, in the order of the
\* sequence.
RECURSIVE VisibleIds(_, _, _)
VisibleIds(l, ids, c) ==
  IF ids = <<>> THEN <<>>
  ELSE (IF Visible(l, Head(ids), c) THEN <<Head(ids)>> ELSE <<>>)
         \o VisibleIds(l, Tail(ids), c)

C21_CheckUnique ==
  \A id \in Ids, c \in Users :
    LET res == Query(ledger, "check_unique_v5c", <<id>>, c, Affiliation(c)) IN
      /\ res.err = NoError
      /\ res.bytes = (IF Exists(ledger, id) THEN "false" ELSE "true")

\* The functions of the Query router, and a name it does not know.
ReadFunctions ==
  {"get_coil_details", "get_coils", "check_unique_v5c", "get_ecert", "ping",
   "get_coil"}

\* The argument lists the queries are invoked with.
ReadArgLists == {<<>>} \cup {<<k>> : k \in Keys} \cup {<<"AB1234567", "X">>}

\* No query made in the current state writes, and check_unique_v5c asked
\* again on the ledger it leaves answers the same.
ReadsLeaveLedger ==
  \A f \in ReadFunctions, c \in Users :
    \A args \in ReadArgLists :
      LET res == Query(ledger, f, args, c, Affiliation(c)) IN
        /\ res.ledger = ledger
        /\ f = "check_unique_v5c" =>
             LET again == Query(res.ledger, f, args, c, Affiliation(c)) IN
               /\ again.bytes = res.bytes
               /\ again.err = res.err

\* A step that is a query leaves every key of the ledger as it was.
ReadStep ==
  last'.function \in ReadFunctions \ {"ping"} => ledger' = ledger

\* C22: no read function invoked through Query, whatever its arguments, its
\* caller and its outcome, changes a key of the ledger, so that
\* check_unique_v5c repeated on the same id answers the same.
C22_ReadsWriteNothing == []ReadsLeaveLedger /\ [][ReadStep]_vars

\* C22 witness: check_unique_v5c has just answered on a ledger that holds a
\* coil and the index entry of it.
C22_Witness ==
  /\ last.function = "check_unique_v5c"
  /\ Exists(ledger, "AB1234567")
  /\ Index(ledger) = <<"AB1234567">>

\* The index after a step is the index before it, or, after a create_coil
\* that returned no error, the index before it with one id appended, the id
\* of the record the step stored.
IndexStep ==
  LET i == Index(ledger)
      j == Index(ledger')
  IN \/ /\ j = i
        /\ \A id \in Ids : Exists(ledger', id) => Exists(ledger, id)
     \/ /\ last'.function = "create_coil"
        /\ last'.err = NoError
        /\ Len(j) = Len(i) + 1
        /\ SubSeq(j, 1, Len(i)) = i
        /\ ~Exists(ledger, j[Len(j)])
        /\ Exists(ledger', j[Len(j)])

\* C24: the index is empty after Init and from then on append-only: a
\* successful create_coil appends its id, and no other step (a later Init
\* among them) removes, reorders or changes an entry.
C24_IndexAppendOnly ==
  [](last.function = "Init" => Index(ledger) = <<>>) /\ [][IndexStep]_vars

\* The role the policy table requires of the recipient of a transfer.
RecipientRole(function) ==
  CASE function = "authority_to_manufacturer" -> MANUFACTURER
    [] function = "manufacturer_to_private"   -> PRIVATE_ENTITY
    [] function = "private_to_private"        -> PRIVATE_ENTITY
    [] function = "private_to_lease_company"  -> LEASE_COMPANY
    [] function = "lease_company_to_private"  -> PRIVATE_ENTITY
    [] function = "private_to_scrap_merchant" -> SCRAP_MERCHANT

\* C25: a transfer succeeds only if the recipient has the role its row of
\* the policy table requires, so that the new owner has that role.
C25_RecipientHasRole ==
  \A f \in TransferFunctions, id \in Ids, c \in Users, r \in Users :
    LET res == Call(f, <<r, id>>, c) IN
      Succeeds(res) =>
        /\ Affiliation(r) = RecipientRole(f)
        /\ Affiliation(OwnerOf(res.ledger, id)) = RecipientRole(f)

\* C27: after a successful update_coilid the serial number is not 0 and
\* every later update_coilid on the coil, with any 15-character value that
\* parses as an integer, is refused.
C27_SerialSetExactlyOnce ==
  \A id \in Ids, c \in Users, x \in SerialStrings :
    LET res == Call("update_coilid", <<x, id>>, c) IN
      Succeeds(res) =>
        /\ Stored(res.ledger, id).CoilID # 0
        /\ \A d \in Users, y \in SerialStrings :
             ValidSerial(y) =>
               Fails(Invoke(res.ledger, "update_coilid", <<y, id>>, d, Affiliation(d)))

\* The argument lists that are too short for the function.
ShortArgLists(function) ==
  IF function \in {"create_coil", "scrap_coil"} THEN {<<>>}
  ELSE {<<>>} \cup {<<x>> : x \in FirstArgs(function)}

\* C28: a write function invoked with too few arguments returns an error to
\* the caller, does not end the invocation in a panic, and writes nothing.
C28_WrongArgumentCount ==
  \A f \in WriteFunctions, c \in Users :
    \A args \in ShortArgLists(f) :
      LET res == Call(f, args, c) IN
        /\ Fails(res)
        /\ res.err # Panic
        /\ res.ledger = ledger

\* The statuses a coil has after manufacturer_to_private.
LaterStatuses == {STATE_PRIVATE_OWNERSHIP, STATE_BEING_SCRAPPED}

C30_IndexMatchesRecords ==
  LET idx == Index(ledger) IN
    /\ \A i, j \in 1..Len(idx) : idx[i] = idx[j] => i = j
    /\ \A i \in 1..Len(idx) :
         /\ retrieve_v5c(ledger, idx[i]).err = NoError
         /\ Stored(ledger, idx[i]).V5cID = idx[i]
    /\ \A id \in Ids : Exists(ledger, id) => InIndex(ledger, id)
    /\ \A c \in Users :
         Query(ledger, "get_coils", <<>>, c, Affiliation(c)).err = NoError

\* The last function of the life of the coil has been invoked.
LifecycleDone == Invoked("scrap_coil")

\* C26: the life of a coil can be run to its end through Invoke: once
\* create_coil, the transfer to a manufacturer, the five updates, the
\* transfers to a private entity and to a scrap merchant and scrap_coil have
\* been invoked in this order by callers of the roles they ask for, the
\* updates having left the coil fully manufactured, the coil is in status
\* BEING_SCRAPPED and scrapped, and the transfer to the private entity
\* succeeded on the way.
C26_LifecycleReachable ==
  /\ Invoked("manufacturer_to_private") /\ Len(calls) = 8
       /\ FullyManufactured(Stored(ledger, LifecycleId))
       => /\ last.err = NoError
          /\ Stored(ledger, LifecycleId).Status = STATE_PRIVATE_OWNERSHIP
  /\ LifecycleDone /\ FullyManufactured(Stored(ledger, LifecycleId))
       => /\ Stored(ledger, LifecycleId).Status = STATE_BEING_SCRAPPED
          /\ Stored(ledger, LifecycleId).Scrapped

\* The ledger that invocation a and then invocation b, each run alone, leave.
SerialLedger(l, a, b) == InvokeCall(InvokeCall(l, a).ledger, b).ledger

\* C23: write operations invoked concurrently on different coils share no
\* ledger state: however the GetState and PutState steps of the two interleave
\* (two create_coil included), once both have returned the ledger is the one
\* that running the two one after the other, in one of the two orders, leaves
\* from the ledger they were submitted on.
C23_ConcurrentWritesSerializable ==
  AllReturned =>
    ledger \in {SerialLedger(calls[1].start, calls[1], calls[2]),
                SerialLedger(calls[1].start, calls[2], calls[1])}

====
